---- MODULE Spec2Model ----
(***************************************************************************)
(* Quad Cortex device list: the extractor (scripts' scrapeDeviceList and   *)
(* main) and the Raycast search view (Command).                            *)
(*                                                                         *)
(* Text is a sequence of one-character strings, so that trim(),            *)
(* toLowerCase(), includes() and sort() are computed, not assumed.         *)
(***************************************************************************)
EXTENDS Integers, Sequences, FiniteSets

VARIABLES
    \* ---- extractor: the in-page evaluation (page.evaluate callback)
    document,           \* the rendered DOM the callback reads
    trace,              \* results, each with the heading and row it came from
    epc,                \* "rendered" | "evaluated"
    \* ---- extractor: one run of main()
    pc,                 \* position in scrapeDeviceList / main
    browser,            \* "none" | "open" | "closed" | "closeFailed"
    thrown,             \* name of the step whose error is propagating, or "none"
    warned,             \* console.warn("No h2 headings found") was printed
    extractedDevices,   \* value returned by page.evaluate
    devices,            \* value returned by scrapeDeviceList to main
    file,               \* lib/devices.json: [intact, data]
    priorFile,          \* lib/devices.json as it was when this run started
    written,            \* writeFileSync returned in this run
    console,            \* console.log / console.error lines of this run
    exitCode,           \* "none" while the process runs, then "0" or "1"
    \* ---- search view
    dataset,            \* the imported lib/devices.json
    searchText,         \* useState("")
    groupedDevices,     \* useMemo result: category -> device indices
    sections            \* the rendered <List.Section> elements

extractVars == <<document, trace, epc>>
runVars == <<pc, browser, thrown, warned, extractedDevices, devices, file,
             priorFile, written, console, exitCode>>
searchVars == <<dataset, searchText, groupedDevices, sections>>
vars == <<extractVars, runVars, searchVars>>

----------------------------------------------------------------------------
(* Bounds *)

\* Elements (h2 / div) of a rendered document.
MaxNodes == 4
\* Records of the dataset the search view imports.
MaxDevices == 2
\* Elements of the document a whole run of the extractor reads.
MaxRunNodes == 3
\* Characters of a search query.
MaxQueryLen == 2

----------------------------------------------------------------------------
(* Text *)

WhiteSpace == {" "}

RECURSIVE TrimStart(_)
TrimStart(s) ==
    IF s = <<>> THEN s
    ELSE IF Head(s) \in WhiteSpace THEN TrimStart(Tail(s)) ELSE s

RECURSIVE TrimEnd(_)
TrimEnd(s) ==
    IF s = <<>> THEN s
    ELSE IF s[Len(s)] \in WhiteSpace THEN TrimEnd(SubSeq(s, 1, Len(s) - 1)) ELSE s

\* String.prototype.trim
Trim(s) == TrimEnd(TrimStart(s))

RECURSIVE Concat(_)
Concat(ss) == IF ss = <<>> THEN <<>> ELSE Head(ss) \o Concat(Tail(ss))

\* The elements of the set of integers S, ascending.
RECURSIVE Ascending(_)
Ascending(S) ==
    IF S = {} THEN <<>>
    ELSE LET m == CHOOSE x \in S : \A y \in S : x <= y
         IN  <<m>> \o Ascending(S \ {m})

----------------------------------------------------------------------------
(* The rendered document.                                                  *)
(* Elements are numbered 1..n in document order; parent[i] is the parent   *)
(* element of i (0: the body).  An element is an h2 or a div; a div lists  *)
(* the data rows (div.sc-97391185-0.vdqnr) that are its first children,    *)
(* each row as the texts of its cells (div.sc-eb3d5477-0.ijbjQB).          *)

HeadingTexts == { <<" ">>, <<" ", "A">>, <<"B", " ">> }

GoodRow == << <<" ", "x", " ">>, <<" ", "y">> >>
NoBasedOnRow == << <<"z">>, <<>>, <<"w">> >>
OneCellRow == << <<"x">> >>
NoNameRow == << <<" ">>, <<"y">> >>

RowLists == { <<>>, <<GoodRow, NoBasedOnRow>>, <<OneCellRow, NoNameRow>> }

Elements ==
    [tag : {"h2"}, text : HeadingTexts, rows : {<<>>}]
    \cup [tag : {"div"}, text : {<<>>}, rows : RowLists]

RECURSIVE AncestorsOrSelf(_, _)
AncestorsOrSelf(parent, i) ==
    IF i = 0 THEN {0} ELSE {i} \cup AncestorsOrSelf(parent, parent[i])

EmptyDocument == [n |-> 0, parent |-> <<>>, node |-> <<>>]

\* The document d with element e appended as the last child of p.
AppendChild(d, p, e) ==
    [n |-> d.n + 1, parent |-> Append(d.parent, p), node |-> Append(d.node, e)]

\* The elements a new last element of the document can be a child of.
OpenElements(d) == AncestorsOrSelf(d.parent, d.n)

Subtree(d, i) == { j \in 1..d.n : i \in AncestorsOrSelf(d.parent, j) }

Children(d, i) == { j \in 1..d.n : d.parent[j] = i }

\* Node.textContent: the element's own text, its rows' cells, its children.
RECURSIVE TextContent(_, _)
TextContent(d, i) ==
    LET kids == Ascending(Children(d, i))
    IN  d.node[i].text
        \o Concat([k \in 1..Len(d.node[i].rows) |-> Concat(d.node[i].rows[k])])
        \o Concat([k \in 1..Len(kids) |-> TextContent(d, kids[k])])

\* document.querySelectorAll("h2")
Headings(d) == Ascending({ i \in 1..d.n : d.node[i].tag = "h2" })

\* Element.nextElementSibling (0: null)
NextElementSibling(d, i) ==
    LET later == { j \in 1..d.n : j > i /\ d.parent[j] = d.parent[i] }
    IN  IF later = {} THEN 0 ELSE CHOOSE j \in later : \A k \in later : j <= k

\* current.querySelectorAll("div.sc-97391185-0.vdqnr"): the rows below current,
\* in document order, each as [owner, k, cells].
DataRows(d, current) ==
    LET owners == Ascending(Subtree(d, current))
    IN  Concat([o \in 1..Len(owners) |->
                  [k \in 1..Len(d.node[owners[o]].rows) |->
                     [owner |-> owners[o], k |-> k,
                      cells |-> d.node[owners[o]].rows[k]]]])

----------------------------------------------------------------------------
(* The page.evaluate callback of scrapeDeviceList.                         *)
(* A result is kept with the heading and the row it was read from.         *)

\* The body of dataRows.forEach: what one row pushes onto results.
RowResultUntrimmed(category, heading, row) ==
    IF Len(row.cells) >= 2
    THEN IF Trim(row.cells[1]) # <<>>
         THEN << [rec |-> [category |-> category, name |-> row.cells[1],
                           basedOn |-> row.cells[2]],
                  heading |-> heading, owner |-> row.owner, k |-> row.k] >>
         ELSE <<>>
    ELSE <<>>

RowResultUnchecked(category, heading, row) ==
    IF Len(row.cells) >= 2
    THEN << [rec |-> [category |-> category, name |-> Trim(row.cells[1]),
                      basedOn |-> Trim(row.cells[2])],
             heading |-> heading, owner |-> row.owner, k |-> row.k] >>
    ELSE <<>>

RowResult(category, heading, row) ==
    IF Len(row.cells) >= 2
    THEN LET name == Trim(row.cells[1])
             basedOn == Trim(row.cells[2])
         IN  IF name # <<>>
             THEN << [rec |-> [category |-> category, name |-> name,
                               basedOn |-> basedOn],
                      heading |-> heading, owner |-> row.owner, k |-> row.k] >>
             ELSE <<>>
    ELSE <<>>

\* A walk that does not stop at the next h2.
RECURSIVE SiblingWalkPastHeadings(_, _, _, _)
SiblingWalkPastHeadings(d, current, category, heading) ==
    IF current = 0 THEN <<>>
    ELSE LET dataRows == DataRows(d, current)
         IN  IF Len(dataRows) > 0
             THEN Concat([r \in 1..Len(dataRows) |->
                            RowResult(category, heading, dataRows[r])])
             ELSE SiblingWalkPastHeadings(d, NextElementSibling(d, current),
                                          category, heading)

\* while (current && !current.matches("h2")) { ... break ... }
RECURSIVE SiblingWalk(_, _, _, _)
SiblingWalk(d, current, category, heading) ==
    IF current = 0 \/ d.node[current].tag = "h2" THEN <<>>
    ELSE LET dataRows == DataRows(d, current)
         IN  IF Len(dataRows) > 0
             THEN Concat([r \in 1..Len(dataRows) |->
                            RowResult(category, heading, dataRows[r])])
             ELSE SiblingWalk(d, NextElementSibling(d, current), category, heading)

\* The body of headings.forEach.
HeadingResults(d, heading) ==
    LET category == Trim(TextContent(d, heading))
    IN  IF category = <<>> THEN <<>>
        ELSE SiblingWalk(d, NextElementSibling(d, heading), category, heading)

\* The whole callback: results in heading order, then row order.
EvaluateCallback(d) ==
    LET hs == Headings(d)
    IN  Concat([i \in 1..Len(hs) |-> HeadingResults(d, hs[i])])

\* The Device objects returned to Node, without the provenance.
DevicesOf(t) == [i \in 1..Len(t) |-> t[i].rec]

----------------------------------------------------------------------------
(* Values the variables of the other pipelines hold while one is checked. *)

IdleExtract == document = EmptyDocument /\ trace = <<>> /\ epc = "idle"

IdleRun == /\ pc = "idle" /\ browser = "none" /\ thrown = "none"
           /\ warned = FALSE /\ extractedDevices = <<>> /\ devices = <<>>
           /\ file = [intact |-> TRUE, data |-> <<>>] /\ priorFile = file
           /\ written = FALSE
           /\ console = <<>> /\ exitCode = "none"

IdleSearch == dataset = <<>> /\ searchText = <<>>
              /\ groupedDevices = <<>> /\ sections = <<>>

----------------------------------------------------------------------------
(* Specification of the in-page evaluation: the page's scripts render the  *)
(* document element by element, and the callback reads whatever is there   *)
(* when the fixed delay has passed.                                        *)

InitExtract ==
    /\ document = EmptyDocument
    /\ trace = <<>>
    /\ epc = "rendering"
    /\ IdleRun /\ IdleSearch

Render ==
    /\ epc = "rendering"
    /\ document.n < MaxNodes
    /\ \E p \in OpenElements(document), e \in Elements :
         document' = AppendChild(document, p, e)
    /\ UNCHANGED <<trace, epc, runVars, searchVars>>

Evaluate ==
    /\ epc = "rendering"
    /\ trace' = EvaluateCallback(document)
    /\ epc' = "evaluated"
    /\ UNCHANGED <<document, runVars, searchVars>>

NextExtract == Render \/ Evaluate

SpecExtract == InitExtract /\ [][NextExtract]_vars

----------------------------------------------------------------------------
(* One run of the extractor: main() calling scrapeDeviceList().            *)
(* Every awaited call either returns or throws; the document the page has  *)
(* rendered when page.evaluate runs is any document of up to MaxRunNodes   *)
(* elements.                                                               *)

\* What page.evaluate can return on d or on a document that continues d.
RECURSIVE OutputsFrom(_)
OutputsFrom(d) ==
    {DevicesOf(EvaluateCallback(d))}
    \cup IF d.n < MaxRunNodes
         THEN UNION { OutputsFrom(AppendChild(d, x[1], x[2])) :
                      x \in OpenElements(d) \X Elements }
         ELSE {}

ExtractOutputs == OutputsFrom(EmptyDocument)

InitRun ==
    /\ pc = "start"
    /\ browser = "none"
    /\ thrown = "none"
    /\ warned = FALSE
    /\ extractedDevices = <<>>
    /\ devices = <<>>
    /\ file = [intact |-> TRUE, data |-> <<>>]
    /\ priorFile = file
    /\ written = FALSE
    /\ console = <<>>
    /\ exitCode = "none"
    /\ IdleExtract /\ IdleSearch

\* const browser = await puppeteer.launch(...)   (outside the try block)
Launch ==
    /\ pc = "start"
    /\ console' = Append(console, "Launching browser...")
    /\ \/ browser' = "open" /\ pc' = "newPage" /\ UNCHANGED thrown
       \/ thrown' = "launch" /\ pc' = "catch" /\ UNCHANGED browser
    /\ UNCHANGED <<warned, extractedDevices, devices, file, priorFile, written,
                   exitCode, extractVars, searchVars>>

\* const page = await browser.newPage()
NewPage ==
    /\ pc = "newPage"
    /\ \/ /\ pc' = "goto"
          /\ console' = Append(console, "Fetching device list page...")
          /\ UNCHANGED thrown
       \/ thrown' = "newPage" /\ pc' = "finally" /\ UNCHANGED console
    /\ UNCHANGED <<browser, warned, extractedDevices, devices, file, priorFile,
                   written, exitCode, extractVars, searchVars>>

\* await page.goto(DEVICE_LIST_URL, { waitUntil: "networkidle2", timeout: 30000 })
Goto ==
    /\ pc = "goto"
    /\ \/ pc' = "waitForSelector" /\ UNCHANGED thrown
       \/ thrown' = "goto" /\ pc' = "finally"
    /\ UNCHANGED <<browser, warned, extractedDevices, devices, file, priorFile,
                   written, console, exitCode, extractVars, searchVars>>

\* await page.waitForSelector("h2", { timeout: 10000 }).catch(() => console.warn(...))
WaitForSelector ==
    /\ pc = "waitForSelector"
    /\ pc' = "delay"
    /\ \/ UNCHANGED <<warned, console>>
       \/ warned' = TRUE /\ console' = Append(console, "No h2 headings found")
    /\ UNCHANGED <<browser, thrown, extractedDevices, devices, file, priorFile,
                   written, exitCode, extractVars, searchVars>>

\* await new Promise((resolve) => setTimeout(resolve, 3000))
Delay ==
    /\ pc = "delay"
    /\ pc' = "evaluate"
    /\ UNCHANGED <<browser, thrown, warned, extractedDevices, devices, file,
                   priorFile, written, console, exitCode, extractVars, searchVars>>

\* An evaluation whose failure skips the finally block.
EvaluatePageNoFinally ==
    /\ pc = "evaluate"
    /\ \/ /\ \E r \in ExtractOutputs : extractedDevices' = r
          /\ pc' = "finally"
          /\ UNCHANGED thrown
       \/ thrown' = "evaluate" /\ pc' = "catch" /\ UNCHANGED extractedDevices
    /\ UNCHANGED <<browser, warned, devices, file, priorFile, written, console,
                   exitCode, extractVars, searchVars>>

\* const extractedDevices = await page.evaluate(() => { ... })
EvaluatePage ==
    /\ pc = "evaluate"
    /\ \/ /\ \E r \in ExtractOutputs : extractedDevices' = r
          /\ pc' = "finally"
          /\ UNCHANGED thrown
       \/ thrown' = "evaluate" /\ pc' = "finally" /\ UNCHANGED extractedDevices
    /\ UNCHANGED <<browser, warned, devices, file, priorFile, written, console,
                   exitCode, extractVars, searchVars>>

\* A finally block that swallows the error of browser.close().
FinallyIgnoringCloseError ==
    /\ pc = "finally"
    /\ \/ browser' = "closed" /\ UNCHANGED thrown
       \/ browser' = "closeFailed" /\ UNCHANGED thrown
    /\ IF thrown = "none"
       THEN devices' = extractedDevices /\ pc' = "main"
       ELSE pc' = "catch" /\ UNCHANGED devices
    /\ UNCHANGED <<warned, extractedDevices, file, priorFile, written, console,
                   exitCode, extractVars, searchVars>>

\* finally { await browser.close() }, then return extractedDevices or rethrow.
\* An error of close() replaces the pending return or error.
Finally ==
    /\ pc = "finally"
    /\ \/ /\ browser' = "closed"
          /\ IF thrown = "none"
             THEN devices' = extractedDevices /\ pc' = "main"
             ELSE pc' = "catch" /\ UNCHANGED devices
          /\ UNCHANGED thrown
       \/ /\ browser' = "closeFailed"
          /\ thrown' = "close"
          /\ pc' = "catch"
          /\ UNCHANGED devices
    /\ UNCHANGED <<warned, extractedDevices, file, priorFile, written, console,
                   exitCode, extractVars, searchVars>>

\* console.log(`Scraped ...`); if (!fs.existsSync(libDir)) fs.mkdirSync(libDir, ...)
MkDir ==
    /\ pc = "main"
    /\ console' = Append(console, "Scraped")
    /\ \/ pc' = "write" /\ UNCHANGED thrown
       \/ thrown' = "mkdir" /\ pc' = "catch"
    /\ UNCHANGED <<browser, warned, extractedDevices, devices, file, priorFile,
                   written, exitCode, extractVars, searchVars>>

\* fs.writeFileSync(outputPath, JSON.stringify(devices, null, 2), "utf-8")
\* A write that fails leaves the file as it was or cut short.
WriteFile ==
    /\ pc = "write"
    /\ \/ /\ file' = [intact |-> TRUE, data |-> devices]
          /\ written' = TRUE
          /\ console' = Append(console, "Successfully wrote")
          /\ pc' = "summary"
          /\ UNCHANGED thrown
       \/ /\ file' \in {file, [intact |-> FALSE, data |-> <<>>]}
          /\ thrown' = "write"
          /\ pc' = "catch"
          /\ UNCHANGED <<written, console>>
    /\ UNCHANGED <<browser, warned, extractedDevices, devices, priorFile,
                   exitCode, extractVars, searchVars>>

\* The summary by category; main returns and the process ends with code 0.
Summary ==
    /\ pc = "summary"
    /\ console' = Append(console, "Summary by category:")
    /\ exitCode' = "0"
    /\ pc' = "exited"
    /\ UNCHANGED <<browser, thrown, warned, extractedDevices, devices, file,
                   priorFile, written, extractVars, searchVars>>

\* catch (error) { console.error(...); process.exit(1) }
Catch ==
    /\ pc = "catch"
    /\ console' = Append(console, "Error scraping device list:")
    /\ exitCode' = "1"
    /\ pc' = "exited"
    /\ UNCHANGED <<browser, thrown, warned, extractedDevices, devices, file,
                   priorFile, written, extractVars, searchVars>>

\* npm run scrape-devices, once more: a new process, the same lib/devices.json.
RunAgain ==
    /\ pc = "exited"
    /\ pc' = "start"
    /\ browser' = "none"
    /\ thrown' = "none"
    /\ warned' = FALSE
    /\ extractedDevices' = <<>>
    /\ devices' = <<>>
    /\ priorFile' = file
    /\ written' = FALSE
    /\ console' = <<>>
    /\ exitCode' = "none"
    /\ UNCHANGED <<file, extractVars, searchVars>>

NextRun ==
    \/ Launch \/ NewPage \/ Goto \/ WaitForSelector \/ Delay \/ EvaluatePage
    \/ Finally \/ MkDir \/ WriteFile \/ Summary \/ Catch \/ RunAgain

SpecRun == InitRun /\ [][NextRun]_vars

----------------------------------------------------------------------------
(* The search view: Command() of search-quad-cortex-device-list.tsx.       *)
(* A device is a record of the imported JSON array; basedOn may be missing. *)
(* A device object is identified by its index in the array.                *)

UpperCase == << "A", "B", "C", "D", "E", "F", "G", "H", "I", "J", "K", "L", "M",
                "N", "O", "P", "Q", "R", "S", "T", "U", "V", "W", "X", "Y", "Z" >>
LowerCase == << "a", "b", "c", "d", "e", "f", "g", "h", "i", "j", "k", "l", "m",
                "n", "o", "p", "q", "r", "s", "t", "u", "v", "w", "x", "y", "z" >>

ToLowerCaseChar(c) ==
    IF \E i \in 1..Len(UpperCase) : UpperCase[i] = c
    THEN LowerCase[CHOOSE i \in 1..Len(UpperCase) : UpperCase[i] = c]
    ELSE c

\* String.prototype.toLowerCase
ToLowerCase(s) == [i \in 1..Len(s) |-> ToLowerCaseChar(s[i])]

\* String.prototype.includes
Includes(s, sub) ==
    \E i \in 0..(Len(s) - Len(sub)) : SubSeq(s, i + 1, i + Len(sub)) = sub

\* The UTF-16 code unit of a character.
CodeUnit(c) ==
    IF c = " " THEN 32
    ELSE IF \E i \in 1..Len(UpperCase) : UpperCase[i] = c
         THEN 64 + (CHOOSE i \in 1..Len(UpperCase) : UpperCase[i] = c)
         ELSE 96 + (CHOOSE i \in 1..Len(LowerCase) : LowerCase[i] = c)

\* a < b as Array.prototype.sort() compares strings: by code units.
RECURSIVE StringLess(_, _)
StringLess(a, b) ==
    IF b = <<>> THEN FALSE
    ELSE IF a = <<>> THEN TRUE
    ELSE IF Head(a) # Head(b) THEN CodeUnit(Head(a)) < CodeUnit(Head(b))
    ELSE StringLess(Tail(a), Tail(b))

DEVICE_LIST_URL == "DEVICE_LIST_URL"

ExcludedCategory ==
    << "A", "n", "n", "o", "u", "n", "c", "e", "d", " ", "d", "e", "v",
       "i", "c", "e", "s", " ", "t", "h", "a", "t", " ", "h", "a", "v", "e",
       " ", "n", "o", "t", " ", "y", "e", "t", " ", "b", "e", "e", "n", " ",
       "r", "e", "l", "e", "a", "s", "e", "d" >>

HasBasedOn(device) == "basedOn" \in DOMAIN device

\* JavaScript truthiness of device.basedOn: neither undefined nor "".
BasedOnTruthy(device) == HasBasedOn(device) /\ device.basedOn # <<>>

\* The filter without the exclusion of announced devices.
AllDevices(ds) == Ascending(1..Len(ds))

\* (devices as Device[]).filter((device) => device.category !== "Announced ...")
ReleasedDevices(ds) ==
    Ascending({ i \in 1..Len(ds) : ds[i].category # ExcludedCategory })

\* The predicate comparing against the query as typed, not lower-cased.
MatchesSearchCaseSensitive(device, text) ==
    IF text = <<>> THEN TRUE
    ELSE \/ Includes(ToLowerCase(device.name), text)
         \/ Includes(ToLowerCase(device.category), text)
         \/ /\ BasedOnTruthy(device)
            /\ Trim(device.basedOn) # <<>>
            /\ Includes(ToLowerCase(device.basedOn), text)

\* The predicate of releasedDevices.filter(...)
MatchesSearch(device, text) ==
    LET searchLower == ToLowerCase(text)
    IN  IF text = <<>> THEN TRUE
        ELSE \/ Includes(ToLowerCase(device.name), searchLower)
             \/ Includes(ToLowerCase(device.category), searchLower)
             \/ /\ BasedOnTruthy(device)
                /\ Trim(device.basedOn) # <<>>
                /\ Includes(ToLowerCase(device.basedOn), searchLower)

Filtered(ds, text) ==
    LET released == ReleasedDevices(ds)
    IN  SelectSeq(released, LAMBDA i : MatchesSearch(ds[i], text))

\* One step of filtered.reduce: acc is the object built so far, as its
\* [key, items] properties in insertion order.
GroupStep(acc, ds, i) ==
    LET withKey == IF \E g \in 1..Len(acc) : acc[g].key = ds[i].category
                   THEN acc
                   ELSE Append(acc, [key |-> ds[i].category, items |-> <<>>])
    IN  [g \in 1..Len(withKey) |->
           IF withKey[g].key = ds[i].category
           THEN [key |-> withKey[g].key, items |-> Append(withKey[g].items, i)]
           ELSE withKey[g]]

RECURSIVE Reduce(_, _, _)
Reduce(acc, ds, indices) ==
    IF indices = <<>> THEN acc
    ELSE Reduce(GroupStep(acc, ds, Head(indices)), ds, Tail(indices))

\* The value of the useMemo for a search text.
Grouped(ds, text) == Reduce(<<>>, ds, Filtered(ds, text))

\* Object.keys(groupedDevices), unsorted.
InsertionOrder(grouped) == [g \in 1..Len(grouped) |-> grouped[g].key]

RECURSIVE SortStrings(_)
SortStrings(S) ==
    IF S = {} THEN <<>>
    ELSE LET m == CHOOSE x \in S : \A y \in S \ {x} : StringLess(x, y)
         IN  <<m>> \o SortStrings(S \ {m})

\* Object.keys(groupedDevices).sort()
SortedCategories(grouped) ==
    SortStrings({ grouped[g].key : g \in 1..Len(grouped) })

\* A subtitle that treats whitespace-only text as blank.
ItemSubtitleTrimmed(device) ==
    IF BasedOnTruthy(device) /\ Trim(device.basedOn) # <<>>
    THEN device.basedOn ELSE <<>>

\* subtitle={device.basedOn || ""}
ItemSubtitle(device) == IF BasedOnTruthy(device) THEN device.basedOn ELSE <<>>

\* An action panel whose copy action does not look at trim().
ItemActionsUntrimmed(device) ==
    (IF BasedOnTruthy(device)
     THEN << [action |-> "CopyToClipboard", value |-> device.basedOn] >>
     ELSE <<>>)
    \o << [action |-> "OpenInBrowser", value |-> DEVICE_LIST_URL] >>

\* <ActionPanel> ... </ActionPanel>
ItemActions(device) ==
    (IF BasedOnTruthy(device) /\ Trim(device.basedOn) # <<>>
     THEN << [action |-> "CopyToClipboard", value |-> device.basedOn] >>
     ELSE <<>>)
    \o << [action |-> "OpenInBrowser", value |-> DEVICE_LIST_URL] >>

\* <List.Item ... /> for the device object at index i, in section category.
ListItem(ds, category, i) ==
    [device |-> i,
     title |-> ds[i].name,
     subtitle |-> ItemSubtitle(ds[i]),
     accessories |-> <<category>>,
     actions |-> ItemActions(ds[i])]

ItemsOf(grouped, category) ==
    grouped[CHOOSE g \in 1..Len(grouped) : grouped[g].key = category].items

\* The <List.Section> elements Command returns.
RenderSections(ds, grouped) ==
    LET sortedCategories == SortedCategories(grouped)
    IN  [c \in 1..Len(sortedCategories) |->
           LET items == ItemsOf(grouped, sortedCategories[c])
           IN  [title |-> sortedCategories[c],
                items |-> [k \in 1..Len(items) |->
                             ListItem(ds, sortedCategories[c], items[k])]]]

(* The datasets and the queries the view is checked on. *)

DevicePool ==
    { [category |-> <<"Z">>, name |-> <<"b">>, basedOn |-> <<"a", "B", " ">>],
      [category |-> <<"Z">>, name |-> <<"A", "b">>],
      [category |-> <<"a">>, name |-> <<"A", "b">>, basedOn |-> <<" ">>],
      [category |-> <<"a">>, name |-> <<"b">>, basedOn |-> <<>>],
      [category |-> ExcludedCategory, name |-> <<"A", "b">>,
       basedOn |-> <<"a", "B", " ">>],
      [category |-> ExcludedCategory, name |-> <<"b">>, basedOn |-> <<" ">>] }

Datasets == UNION { [1..n -> DevicePool] : n \in 0..MaxDevices }

QueryChars == {"a", "B", " "}

Queries == UNION { [1..n -> QueryChars] : n \in 0..MaxQueryLen }

InitSearch ==
    /\ dataset \in Datasets
    /\ searchText = <<>>
    /\ groupedDevices = Grouped(dataset, <<>>)
    /\ sections = RenderSections(dataset, groupedDevices)
    /\ IdleExtract /\ IdleRun

\* onSearchTextChange={setSearchText}: the state changes, the memo is
\* recomputed for the new text and the list is rendered again.
SetSearchText ==
    \E text \in Queries :
      /\ text # searchText
      /\ searchText' = text
      /\ groupedDevices' = Grouped(dataset, text)
      /\ sections' = RenderSections(dataset, groupedDevices')
      /\ UNCHANGED <<dataset, extractVars, runVars>>

NextSearch == SetSearchText

SpecSearch == InitSearch /\ [][NextSearch]_vars

----------------------------------------------------------------------------
(* Properties of the in-page evaluation *)

WellFormed(cells) == Len(cells) >= 2 /\ Trim(cells[1]) # <<>>

NamedHeadings(d) ==
    { h \in 1..d.n : d.node[h].tag = "h2" /\ Trim(TextContent(d, h)) # <<>> }

LaterSiblings(d, h) == { c \in 1..d.n : c > h /\ d.parent[c] = d.parent[h] }

\* The siblings after heading h, before the next sibling h2, that hold rows.
RowContainersAfter(d, h) ==
    { c \in LaterSiblings(d, h) :
        /\ DataRows(d, c) # <<>>
        /\ \A s \in LaterSiblings(d, h) : s <= c => d.node[s].tag # "h2" }

RowsBelow(d, c) == { DataRows(d, c)[r] : r \in 1..Len(DataRows(d, c)) }

\* The results read from row `row`, for any heading / for heading h.
ResultsOfRow(row) ==
    { i \in 1..Len(trace) : trace[i].owner = row.owner /\ trace[i].k = row.k }

ResultsOfRowFor(h, row) == { i \in ResultsOfRow(row) : trace[i].heading = h }

RecordOf(d, h, row) ==
    [category |-> Trim(TextContent(d, h)), name |-> Trim(row.cells[1]),
     basedOn |-> Trim(row.cells[2])]

\* C3 as claimed: for every heading with non-empty text and every row container
\* that follows it before the next heading, in any document shape, every
\* well-formed row yields exactly one record of the output, with the heading's
\* category and the row's trimmed first two cells.
C3_EveryRowOnce ==
    epc = "evaluated" =>
        \A h \in NamedHeadings(document) :
          \A c \in RowContainersAfter(document, h) :
            \A row \in RowsBelow(document, c) :
              WellFormed(row.cells) =>
                /\ Cardinality(ResultsOfRow(row)) = 1
                /\ \A i \in ResultsOfRow(row) :
                     trace[i].rec = RecordOf(document, h, row)

\* C3 as amended: for every heading with non-empty text, every well-formed row
\* below the FIRST row container that follows it before the next sibling
\* heading yields exactly one record for that heading, with category = the
\* heading's trimmed text, name = trimmed cell 0, basedOn = trimmed cell 1; the
\* rows of later containers yield no record for that heading.
C3_FirstContainerRowsOnce ==
    epc = "evaluated" =>
        \A h \in NamedHeadings(document) :
          \A c \in RowContainersAfter(document, h) :
            \A row \in RowsBelow(document, c) :
              IF \A c2 \in RowContainersAfter(document, h) : c <= c2
              THEN WellFormed(row.cells) =>
                     /\ Cardinality(ResultsOfRowFor(h, row)) = 1
                     /\ \A i \in ResultsOfRowFor(h, row) :
                          trace[i].rec = RecordOf(document, h, row)
              ELSE ResultsOfRowFor(h, row) = {}

\* A heading followed by two row containers, each holding a well-formed row,
\* has been evaluated and has records.
C3_Witness ==
    /\ epc = "evaluated"
    /\ \E h \in NamedHeadings(document) :
         \E c1, c2 \in RowContainersAfter(document, h) :
           /\ c1 < c2
           /\ \E r1 \in RowsBelow(document, c1) : WellFormed(r1.cells)
           /\ \E r2 \in RowsBelow(document, c2) : WellFormed(r2.cells)
           /\ \E i \in 1..Len(trace) : trace[i].heading = h

\* C4: the sibling walk never passes the next heading: no record of heading h
\* comes from a row at or after a later sibling h2 of h (whatever that h2's
\* text), and a heading whose next sibling h2 comes before any sibling holding
\* rows yields no record.
C4_WalkStopsAtNextHeading ==
    epc = "evaluated" =>
        /\ \A i \in 1..Len(trace) :
             \A s \in LaterSiblings(document, trace[i].heading) :
               document.node[s].tag = "h2" =>
                 \A c \in LaterSiblings(document, trace[i].heading) :
                   c >= s => trace[i].owner \notin Subtree(document, c)
        /\ \A h \in NamedHeadings(document) :
             (/\ \E s \in LaterSiblings(document, h) : document.node[s].tag = "h2"
              /\ RowContainersAfter(document, h) = {})
             => \A i \in 1..Len(trace) : trace[i].heading # h

\* A named heading is followed by an h2 with empty text and then by a container
\* with a well-formed row, and the evaluation gave the first heading nothing.
C4_Witness ==
    /\ epc = "evaluated"
    /\ \E h \in NamedHeadings(document) :
         LET s == NextElementSibling(document, h)
         IN  /\ s # 0
             /\ document.node[s].tag = "h2"
             /\ s \notin NamedHeadings(document)
             /\ \E c \in LaterSiblings(document, s) :
                  \E row \in RowsBelow(document, c) : WellFormed(row.cells)
             /\ \A i \in 1..Len(trace) : trace[i].heading # h

----------------------------------------------------------------------------
(* Properties of a run of the extractor *)

Logged(line) == \E i \in 1..Len(console) : console[i] = line

\* C1: once the browser was launched, the run never gets past scrapeDeviceList
\* (into main's body, its catch block, or the process's end) with the browser
\* still open: close() has been awaited on the success path and on every path
\* where newPage, goto or evaluate threw, and it left the browser closed unless
\* close() itself threw; the error is logged and exit code 1 set only after that.
C1_BrowserClosedBeforeRunEnds ==
    /\ pc \in {"main", "write", "summary", "catch", "exited"} => browser # "open"
    /\ Logged("Error scraping device list:") => browser # "open"
    /\ exitCode # "none" => browser # "open"
    /\ (exitCode # "none" /\ browser # "none" /\ thrown # "close")
         => browser = "closed"

\* The evaluation threw, the browser was closed, and only then the error was
\* logged and the run ended with exit code 1.
C1_Witness ==
    /\ pc = "exited"
    /\ thrown = "evaluate"
    /\ browser = "closed"
    /\ Logged("Error scraping device list:")
    /\ exitCode = "1"

ExtractionFailures == {"launch", "newPage", "goto", "evaluate", "close"}

\* C2: the dataset file is written only after scrapeDeviceList returned: when
\* launch, newPage, goto, evaluate or close threw, nothing is written, the file
\* is the one the run started with, and the run ends with exit code 1; a run
\* ends with exit code 0 only with the file holding the whole extracted sequence.
C2_WriteOnlyAfterExtraction ==
    /\ thrown \in ExtractionFailures => ~written /\ file = priorFile
    /\ (thrown \in ExtractionFailures /\ pc = "exited") => exitCode = "1"
    /\ written => /\ thrown = "none"
                  /\ browser = "closed"
                  /\ file = [intact |-> TRUE, data |-> extractedDevices]
    /\ file # priorFile => pc \in {"summary", "catch", "exited"}
                            /\ devices = extractedDevices
    /\ exitCode = "0" => /\ written
                       /\ file = [intact |-> TRUE, data |-> extractedDevices]

\* The evaluation returned records that differ from the file's, close() threw,
\* and the run ended with exit code 1 and the file untouched.
C2_Witness ==
    /\ pc = "exited"
    /\ thrown = "close"
    /\ extractedDevices # <<>>
    /\ priorFile.data # <<>>
    /\ extractedDevices # priorFile.data
    /\ file = priorFile
    /\ exitCode = "1"

NamedRecord(r) == r.name # <<>> /\ r.category # <<>>

\* Every result of the callback on document d comes from a well-formed row and
\* a heading with non-empty trimmed text.
OnlyWellFormedRowsOfNamedHeadings(d) ==
    LET t == EvaluateCallback(d)
    IN  \A i \in 1..Len(t) :
          /\ WellFormed(d.node[t[i].owner].rows[t[i].k])
          /\ t[i].heading \in NamedHeadings(d)

\* The same, for d and every document of up to MaxRunNodes elements that
\* continues d.
RECURSIVE OnlyWellFormedFrom(_)
OnlyWellFormedFrom(d) ==
    /\ OnlyWellFormedRowsOfNamedHeadings(d)
    /\ d.n < MaxRunNodes =>
         \A p \in OpenElements(d), e \in Elements :
           OnlyWellFormedFrom(AppendChild(d, p, e))

MalformedYieldNothing == OnlyWellFormedFrom(EmptyDocument)

\* C5: every record page.evaluate returns, every record scrapeDeviceList
\* returns and every record of lib/devices.json, after any sequence of
\* successful and failed runs, has a non-empty name and a non-empty category;
\* rows with fewer than two cells or an empty trimmed first cell, and headings
\* with empty trimmed text, produce no record.
C5_NameAndCategoryNonEmpty ==
    /\ \A i \in 1..Len(extractedDevices) : NamedRecord(extractedDevices[i])
    /\ \A i \in 1..Len(devices) : NamedRecord(devices[i])
    /\ \A i \in 1..Len(file.data) : NamedRecord(file.data[i])
    /\ MalformedYieldNothing

\* A run wrote records, and a later run that extracted nothing valid failed and
\* left them in the file.
C5_Witness ==
    /\ pc = "exited"
    /\ exitCode = "1"
    /\ thrown = "evaluate"
    /\ file.data # <<>>
    /\ file = priorFile

----------------------------------------------------------------------------
(* Properties of the search view *)

\* The positions <<section, item>> of the rendered list.
Displayed ==
    UNION { { <<c, k>> : k \in 1..Len(sections[c].items) } :
            c \in 1..Len(sections) }

ItemAt(x) == sections[x[1]].items[x[2]]

DeviceAt(x) == dataset[ItemAt(x).device]

Blank(device) == ~HasBasedOn(device) \/ Trim(device.basedOn) = <<>>

\* C6: after any sequence of query changes, no displayed record has the
\* category "Announced devices that have not yet been released", whatever the
\* query: empty, or matching the record's name, category or basedOn.
C6_AnnouncedNeverDisplayed ==
    \A x \in Displayed :
      /\ DeviceAt(x).category # ExcludedCategory
      /\ sections[x[1]].title # ExcludedCategory

\* A non-empty query matches the name, the category and the basedOn of an
\* announced record of the dataset, and something else is displayed.
C6_Witness ==
    /\ searchText = <<"a">>
    /\ \E i \in 1..Len(dataset) :
         /\ dataset[i].category = ExcludedCategory
         /\ MatchesSearch(dataset[i], searchText)
    /\ Displayed # {}

\* q occurs in s as a substring, letter case ignored.
OccursIgnoringCase(q, s) ==
    \E off \in 0..(Len(s) - Len(q)) :
      \A k \in 1..Len(q) : ToLowerCaseChar(s[off + k]) = ToLowerCaseChar(q[k])

ExpectedMatches ==
    { i \in 1..Len(dataset) :
        /\ dataset[i].category # ExcludedCategory
        /\ \/ searchText = <<>>
           \/ OccursIgnoringCase(searchText, dataset[i].name)
           \/ OccursIgnoringCase(searchText, dataset[i].category)
           \/ /\ ~Blank(dataset[i])
              /\ OccursIgnoringCase(searchText, dataset[i].basedOn) }

\* C7: whatever queries came before, the displayed records are exactly the
\* non-excluded records when the query is empty, and otherwise the non-excluded
\* records in which the query occurs, case-insensitively, as a substring of
\* name, of category, or of a basedOn that is present and not blank.
C7_MatchedRecords ==
    { ItemAt(x).device : x \in Displayed } = ExpectedMatches

\* The query "aB", with an upper-case letter, matches one record through its
\* basedOn alone and leaves another record out.
C7_Witness ==
    /\ searchText = <<"a", "B">>
    /\ \E i \in ExpectedMatches :
         /\ ~OccursIgnoringCase(searchText, dataset[i].name)
         /\ ~OccursIgnoringCase(searchText, dataset[i].category)
    /\ \E i \in 1..Len(dataset) :
         dataset[i].category # ExcludedCategory /\ i \notin ExpectedMatches

Matched ==
    { Filtered(dataset, searchText)[m] : m \in 1..Len(Filtered(dataset, searchText)) }

C9_CopyIffBasedOnNotBlank ==
    \A x \in Displayed :
      LET copies == { a \in 1..Len(ItemAt(x).actions) :
                        ItemAt(x).actions[a].action = "CopyToClipboard" }
          opens == { a \in 1..Len(ItemAt(x).actions) :
                       ItemAt(x).actions[a].action = "OpenInBrowser" }
      IN  /\ copies # {} <=> ~Blank(DeviceAt(x))
          /\ \A a \in copies : ItemAt(x).actions[a].value = DeviceAt(x).basedOn
          /\ Cardinality(copies) <= 1
          /\ Cardinality(opens) = 1
          /\ \A a \in opens : ItemAt(x).actions[a].value = DEVICE_LIST_URL

\* For the query "B", a record with a whitespace-only basedOn is displayed
\* without the copy action and one with an untrimmed basedOn is displayed with it.
C9_Witness ==
    /\ searchText = <<"B">>
    /\ \E x \in Displayed :
         /\ HasBasedOn(DeviceAt(x))
         /\ DeviceAt(x).basedOn = <<" ">>
         /\ Len(ItemAt(x).actions) = 1
    /\ \E x \in Displayed :
         /\ HasBasedOn(DeviceAt(x))
         /\ DeviceAt(x).basedOn = <<"a", "B", " ">>
         /\ Len(ItemAt(x).actions) = 2

====
